---- MODULE Spec2Model ----
(***************************************************************************)
(* Model of seller.py: synchronisation of a supplier's stock spreadsheet    *)
(* with a marketplace seller API.                                           *)
(*                                                                          *)
(* Python values.  A str is a sequence of one-character strings.  A         *)
(* spreadsheet cell is a str or an int, tagged: [t, s, n].  A dict with     *)
(* fixed keys is a record; the supplier row's keys "Код", "Количество",     *)
(* "Цена" are the fields Kod, Kolichestvo, Tsena.                           *)
(***************************************************************************)
EXTENDS Integers, Sequences, FiniteSets, TLC

\* ------------------------------------------------------------------ bounds

\* longest supplier feed handed to create_stocks / create_prices on their own
MaxRows == 2
\* longest offer id list handed to create_stocks / create_prices on their own
MaxIds == 3
\* longest supplier feed download_stock returns in a run of main
MaxFeedRows == 2
\* most items a page of the product list carries
MaxPage == 2
\* most products the marketplace lists over all pages of a run
MaxOffers == 3
\* most get_product_list calls of one get_offer_ids (the loop has no cap)
MaxCalls == 2
\* longest list handed to divide on its own
MaxLen == 4
\* largest chunk size handed to divide on its own
MaxN == 3
\* chunk size of the stock push; main passes 100, scaled to the lists above
StocksChunk == 2
\* chunk size of the price push; main passes 900, scaled to the lists above
PricesChunk == 3

\* ------------------------------------------------------- Python primitives

DigitChars == <<"0", "1", "2", "3", "4", "5", "6", "7", "8", "9">>

IsDigit(c) == \E d \in 1..10 : DigitChars[d] = c

DigitVal(c) == (CHOOSE d \in 1..10 : DigitChars[d] = c) - 1

\* str(n) of an int
RECURSIVE Dec(_)
Dec(n) ==
  IF n < 0 THEN <<"-">> \o Dec(0 - n)
  ELSE IF n < 10 THEN <<DigitChars[n + 1]>>
  ELSE Dec(n \div 10) \o <<DigitChars[(n % 10) + 1]>>

StrCell(s) == [t |-> "str", s |-> s, n |-> 0]

IntCell(n) == [t |-> "int", s |-> <<>>, n |-> n]

\* str(x) of a cell
Str(x) == IF x.t = "int" THEN Dec(x.n) ELSE x.s

RECURSIVE DigitsValue(_, _)
DigitsValue(s, acc) ==
  IF s = <<>> THEN acc ELSE DigitsValue(Tail(s), acc * 10 + DigitVal(Head(s)))

AllDigits(s) == s # <<>> /\ \A k \in 1..Len(s) : IsDigit(s[k])

\* int(x) of a cell: [raised, n]; a str that is no integer literal raises
\* ValueError
PyInt(x) ==
  IF x.t = "int" THEN [raised |-> FALSE, n |-> x.n]
  ELSE IF AllDigits(x.s) THEN [raised |-> FALSE, n |-> DigitsValue(x.s, 0)]
  ELSE IF Len(x.s) > 1 /\ x.s[1] \in {"-", "+"} /\ AllDigits(Tail(x.s))
       THEN [raised |-> FALSE,
             n |-> IF x.s[1] = "-" THEN 0 - DigitsValue(Tail(x.s), 0)
                   ELSE DigitsValue(Tail(x.s), 0)]
  ELSE [raised |-> TRUE, n |-> 0]

\* a membership test that always succeeds
ContainsAlways(x, lst) == TRUE

\* x in lst
Contains(x, lst) == \E k \in 1..Len(lst) : lst[k] = x

\* create_stocks without its offer_ids.remove
RemoveNothing(lst, x) == lst

\* lst.remove(x): the list without the first occurrence of x
Remove(lst, x) ==
  LET k == CHOOSE i \in 1..Len(lst) :
             lst[i] = x /\ \A j \in 1..(i - 1) : lst[j] # x
  IN SubSeq(lst, 1, k - 1) \o SubSeq(lst, k + 1, Len(lst))

\* range(start, stop, step), step # 0
RECURSIVE Range(_, _, _)
Range(start, stop, step) ==
  IF (step > 0 /\ start < stop) \/ (step < 0 /\ start > stop)
  THEN <<start>> \o Range(start + step, stop, step)
  ELSE <<>>

Min(a, b) == IF a < b THEN a ELSE b

\* a slice one item short
SliceShort(lst, i, j) == SubSeq(lst, i + 1, Min(j, Len(lst)) - 1)

\* lst[i:j], 0 <= i
Slice(lst, i, j) == SubSeq(lst, i + 1, Min(j, Len(lst)))

\* all sequences over S of length at most n
SeqUpTo(S, n) == UNION {[1..k -> S] : k \in 0..n}

\* ------------------------------------------------------------------ mapper

GT10 == <<">", "1", "0">>

ONE == <<"1">>

\* the quantity rule with the values of create_stocks' docstring example
stock_of_docstring(watch) ==
  LET count == Str(watch.Kolichestvo) IN
  IF count = GT10 THEN [raised |-> FALSE, stock |-> 10]
  ELSE IF count = ONE THEN [raised |-> FALSE, stock |-> 1]
  ELSE [raised |-> PyInt(watch.Kolichestvo).raised,
        stock |-> PyInt(watch.Kolichestvo).n]

\* create_stocks, the quantity rule of one matched row: [raised, stock]
stock_of(watch) ==
  LET count == Str(watch.Kolichestvo) IN
  IF count = GT10 THEN [raised |-> FALSE, stock |-> 100]
  ELSE IF count = ONE THEN [raised |-> FALSE, stock |-> 0]
  ELSE [raised |-> PyInt(watch.Kolichestvo).raised,
        stock |-> PyInt(watch.Kolichestvo).n]

\* create_stocks, the loop over the rows: the stocks so far and the offer ids
\* still unmatched; int() raising ends the call with the list as mutated so far
RECURSIVE stocks_loop(_, _, _)
stocks_loop(rows, ids, acc) ==
  IF rows = <<>> THEN [raised |-> FALSE, stocks |-> acc, offer_ids |-> ids]
  ELSE LET watch == Head(rows)
           code == Str(watch.Kod)
       IN IF Contains(code, ids)
          THEN IF stock_of(watch).raised
               THEN [raised |-> TRUE, stocks |-> acc, offer_ids |-> ids]
               ELSE stocks_loop(
                      Tail(rows),
                      Remove(ids, code),
                      Append(acc, [offer_id |-> code,
                                   stock |-> stock_of(watch).stock]))
          ELSE stocks_loop(Tail(rows), ids, acc)

\* create_stocks: [raised, stocks, offer_ids], offer_ids being the caller's
\* list after the call
create_stocks(rows, ids) ==
  LET r == stocks_loop(rows, ids, <<>>) IN
  IF r.raised THEN r
  ELSE [raised |-> FALSE,
        stocks |-> r.stocks \o [k \in 1..Len(r.offer_ids) |->
                                  [offer_id |-> r.offer_ids[k], stock |-> 0]],
        offer_ids |-> r.offer_ids]

\* price.split(".")[0]
RECURSIVE BeforeDot(_)
BeforeDot(s) ==
  IF s = <<>> \/ Head(s) = "." THEN <<>> ELSE <<Head(s)>> \o BeforeDot(Tail(s))

\* re.sub("[^0-9]", "", s)
OnlyDigits(s) == SelectSeq(s, IsDigit)

price_conversion(price) == OnlyDigits(BeforeDot(price))

RECURSIVE create_prices(_, _)
create_prices(rows, ids) ==
  IF rows = <<>> THEN <<>>
  ELSE LET watch == Head(rows) IN
       (IF Contains(Str(watch.Kod), ids)
        THEN <<[auto_action_enabled |-> "UNKNOWN",
                currency_code |-> "RUB",
                offer_id |-> Str(watch.Kod),
                old_price |-> "0",
                price |-> price_conversion(Str(watch.Tsena))]>>
        ELSE <<>>) \o create_prices(Tail(rows), ids)

\* list(divide(lst, n)), n > 0
list_divide(lst, n) ==
  LET r == Range(0, Len(lst), n) IN
  [k \in 1..Len(r) |-> Slice(lst, r[k], r[k] + n)]

\* ------------------------------------------------------------- input sets

OfferIdSet == {<<"7">>, <<"8">>, <<"1", "0">>}

CodeSet == {IntCell(7), StrCell(<<"8">>), StrCell(<<"9">>)}

CountSet == {StrCell(GT10), StrCell(ONE), IntCell(1), StrCell(<<"1", "2">>),
             StrCell(<<>>)}

PRICE1 == <<"5", "'", "9", "9", "0", ".", "0", "0", " ", "r", ".">>

PRICE2 == <<"7", "5", ".", "5", "0">>

PriceSet == {StrCell(PRICE1), StrCell(PRICE2)}

StockRows == {[Kod |-> c, Kolichestvo |-> q, Tsena |-> StrCell(PRICE1)] :
                c \in CodeSet, q \in CountSet}

PriceRows == {[Kod |-> c, Kolichestvo |-> StrCell(GT10), Tsena |-> p] :
                c \in CodeSet, p \in PriceSet}

FeedRows == {[Kod |-> c, Kolichestvo |-> q, Tsena |-> StrCell(PRICE1)] :
               c \in CodeSet,
               q \in {StrCell(GT10), StrCell(<<>>)}}

\* ------------------------------------------------------------------- state

VARIABLES
  pc,              \* where main stands
  offer_ids,       \* main's offer_ids list
  fetched,         \* what get_offer_ids returned, before any mutation
  watch_remnants,  \* main's supplier rows
  stocks,          \* main's stocks
  prices,          \* main's prices
  product_list,    \* get_offer_ids: accumulated items
  last_id,         \* get_offer_ids: last_id of the previous page
  total,           \* get_offer_ids: total of the previous page
  calls,           \* get_offer_ids: loop iterations so far
  sent_last_id,    \* payload last_id of the latest product list request
  file_exists,     \* whether ./ostatki.xls exists
  todo,            \* batches the running for loop has still to push
  market,          \* batches the marketplace has applied, in order
  failed,          \* whether some batch push has failed
  exc,             \* the exception that left the try block
  printed,         \* what the except clause printed
  exit_code,       \* the process exit status, -1 while running
  gen              \* a divide generator: [lst, n, state, pos, out]

mainVars == <<pc, offer_ids, fetched, watch_remnants, stocks, prices,
              product_list, last_id, total, calls, sent_last_id, file_exists,
              todo, market, failed, exc, printed, exit_code>>

vars == <<pc, offer_ids, fetched, watch_remnants, stocks, prices,
          product_list, last_id, total, calls, sent_last_id, file_exists,
          todo, market, failed, exc, printed, exit_code, gen>>

NoGen == [lst |-> <<>>, n |-> 1, state |-> "none", pos |-> <<>>, out |-> <<>>]

\* ------------------------------------------------------------ main, a run

NoError == "none"

\* the outcome of one HTTP call: a 2xx response, a non-2xx response, or an
\* exception of requests
HttpOutcomes == {"ok", "non2xx", "ConnectionError", "ReadTimeout"}

\* an update call without raise_for_status
raise_for_status_never(outcome) == FALSE

\* response.raise_for_status(): whether it raises HTTPError
raise_for_status(outcome) == outcome = "non2xx"

\* the exception a call with this outcome raises, NoError when it returns
Raised(outcome) ==
  IF outcome \in {"ConnectionError", "ReadTimeout"} THEN outcome
  ELSE IF raise_for_status(outcome) THEN "HTTPError"
  ELSE NoError

\* main without its last except clause
except_network_only(e) ==
  IF e = "ReadTimeout" THEN "timeout"
  ELSE IF e = "ConnectionError" THEN "connection"
  ELSE ""

\* the except clauses of main, in order: what is printed, "" when no clause
\* matches and the exception leaves main
except_clause(e) ==
  IF e = "ReadTimeout" THEN "timeout"
  ELSE IF e = "ConnectionError" THEN "connection"
  ELSE "ERROR_2"

\* a loop that also stops once more items than total have come
loop_break_at_least(t, lst) == t <= Len(lst)

\* the loop condition of get_offer_ids: break
loop_break(t, lst) == t = Len(lst)

\* the payload's last_id of the next get_product_list call
payload_last_id(prev) == prev

\* the result object of a product list page
Pages == [items : SeqUpTo([offer_id : OfferIdSet], MaxPage),
          total : 0..MaxOffers,
          last_id : {"a", "b"}]

InitMain ==
  /\ pc = "start"
  /\ offer_ids = <<>>
  /\ fetched = <<>>
  /\ watch_remnants = <<>>
  /\ stocks = <<>>
  /\ prices = <<>>
  /\ product_list = <<>>
  /\ last_id = ""
  /\ total = 0
  /\ calls = 0
  /\ sent_last_id = ""
  /\ file_exists = FALSE
  /\ todo = <<>>
  /\ market = <<>>
  /\ failed = FALSE
  /\ exc = NoError
  /\ printed = ""
  /\ exit_code = -1
  /\ gen = NoGen

\* an exception raised inside the try block
Raise(e) == pc' = "except" /\ exc' = e

\* env.str("SELLER_TOKEN"), env.str("CLIENT_ID"): outside the try block, a
\* missing variable raises and ends the process with a traceback
ReadEnv ==
  /\ pc = "start"
  /\ \E present \in BOOLEAN :
       IF present
       THEN pc' = "get_offer_ids" /\ exit_code' = exit_code
       ELSE pc' = "exited" /\ exit_code' = 1
  /\ UNCHANGED <<offer_ids, fetched, watch_remnants, stocks, prices,
                 product_list, last_id, total, calls, sent_last_id,
                 file_exists, todo, market, failed, exc, printed, gen>>

\* get_offer_ids, one iteration of the while loop
GetProductList ==
  /\ pc = "get_offer_ids"
  /\ calls < MaxCalls
  /\ calls' = calls + 1
  /\ sent_last_id' = payload_last_id(last_id)
  /\ \E outcome \in HttpOutcomes :
       IF Raised(outcome) # NoError
       THEN /\ Raise(Raised(outcome))
            /\ UNCHANGED <<product_list, total, last_id>>
       ELSE \E some_prod \in Pages :
              /\ Len(product_list) + Len(some_prod.items) <= MaxOffers
              /\ product_list' = product_list \o some_prod.items
              /\ total' = some_prod.total
              /\ last_id' = some_prod.last_id
              /\ pc' = IF loop_break(some_prod.total, product_list')
                       THEN "return_offer_ids" ELSE "get_offer_ids"
              /\ exc' = exc
  /\ UNCHANGED <<offer_ids, fetched, watch_remnants, stocks, prices,
                 file_exists, todo, market, failed, printed, exit_code, gen>>

\* get_offer_ids, after the loop: the offer_id of every product, returned
ReturnOfferIds ==
  /\ pc = "return_offer_ids"
  /\ offer_ids' = [k \in 1..Len(product_list) |-> product_list[k].offer_id]
  /\ fetched' = offer_ids'
  /\ product_list' = <<>>
  /\ last_id' = ""
  /\ total' = 0
  /\ calls' = 0
  /\ pc' = "download_stock"
  /\ UNCHANGED <<watch_remnants, stocks, prices, sent_last_id, file_exists,
                 todo, market, failed, exc, printed, exit_code, gen>>

\* download_stock: the GET, the extraction, the parse, the removal
DownloadStock ==
  /\ pc = "download_stock"
  /\ \/ \E outcome \in HttpOutcomes \ {"ok"} :
          /\ Raise(Raised(outcome))
          /\ UNCHANGED <<file_exists, watch_remnants>>
     \/ \* the content is no zip archive: ZipFile raises before extractall
        /\ Raise("BadZipFile")
        /\ UNCHANGED <<file_exists, watch_remnants>>
     \/ \* extracted, and read_excel raises: os.remove is not reached
        /\ Raise("XLRDError")
        /\ file_exists' = TRUE
        /\ UNCHANGED watch_remnants
     \/ \E rows \in SeqUpTo(FeedRows, MaxFeedRows) :
          /\ watch_remnants' = rows
          /\ file_exists' = FALSE
          /\ pc' = "create_stocks"
          /\ exc' = exc
  /\ UNCHANGED <<offer_ids, fetched, stocks, prices, product_list, last_id,
                 total, calls, sent_last_id, todo, market, failed, printed,
                 exit_code, gen>>

\* stocks = create_stocks(watch_remnants, offer_ids); list(divide(stocks, 100))
CreateStocks ==
  /\ pc = "create_stocks"
  /\ LET r == create_stocks(watch_remnants, offer_ids) IN
       /\ offer_ids' = r.offer_ids
       /\ IF r.raised
          THEN Raise("ValueError") /\ UNCHANGED <<stocks, todo>>
          ELSE /\ stocks' = r.stocks
               /\ todo' = list_divide(r.stocks, StocksChunk)
               /\ pc' = IF todo' = <<>> THEN "create_prices"
                        ELSE "update_stocks"
               /\ exc' = exc
  /\ UNCHANGED <<fetched, watch_remnants, prices, product_list, last_id,
                 total, calls, sent_last_id, file_exists, market, failed,
                 printed, exit_code, gen>>

\* one HTTP push of a batch: the marketplace applies it on a 2xx response
Push(kind, next) ==
  /\ todo # <<>>
  /\ \E outcome \in HttpOutcomes :
       /\ market' = IF outcome = "ok"
                    THEN Append(market, [kind |-> kind, batch |-> Head(todo)])
                    ELSE market
       /\ failed' = (failed \/ outcome # "ok")
       /\ IF Raised(outcome) # NoError
          THEN Raise(Raised(outcome)) /\ todo' = todo
          ELSE /\ todo' = Tail(todo)
               /\ pc' = IF todo' = <<>> THEN next ELSE pc
               /\ exc' = exc

\* for some_stock in ...: update_stocks(some_stock, client_id, seller_token)
UpdateStocks ==
  /\ pc = "update_stocks"
  /\ Push("stocks", "create_prices")
  /\ UNCHANGED <<offer_ids, fetched, watch_remnants, stocks, prices,
                 product_list, last_id, total, calls, sent_last_id,
                 file_exists, printed, exit_code, gen>>

\* prices = create_prices(watch_remnants, offer_ids); list(divide(prices, 900))
CreatePrices ==
  /\ pc = "create_prices"
  /\ prices' = create_prices(watch_remnants, offer_ids)
  /\ todo' = list_divide(prices', PricesChunk)
  /\ pc' = IF todo' = <<>> THEN "end" ELSE "update_price"
  /\ UNCHANGED <<offer_ids, fetched, watch_remnants, stocks, product_list,
                 last_id, total, calls, sent_last_id, file_exists, market,
                 failed, exc, printed, exit_code, gen>>

\* for some_price in ...: update_price(some_price, client_id, seller_token)
UpdatePrice ==
  /\ pc = "update_price"
  /\ Push("prices", "end")
  /\ UNCHANGED <<offer_ids, fetched, watch_remnants, stocks, prices,
                 product_list, last_id, total, calls, sent_last_id,
                 file_exists, printed, exit_code, gen>>

\* the try block ends without an exception: main returns, exit status 0
Return ==
  /\ pc = "end"
  /\ pc' = "exited"
  /\ exit_code' = 0
  /\ UNCHANGED <<offer_ids, fetched, watch_remnants, stocks, prices,
                 product_list, last_id, total, calls, sent_last_id,
                 file_exists, todo, market, failed, exc, printed, gen>>

\* the except clauses: a matching clause prints and main returns, exit status
\* 0; an exception no clause matches ends the process with status 1
Except ==
  /\ pc = "except"
  /\ printed' = except_clause(exc)
  /\ exit_code' = IF printed' = "" THEN 1 ELSE 0
  /\ pc' = "exited"
  /\ UNCHANGED <<offer_ids, fetched, watch_remnants, stocks, prices,
                 product_list, last_id, total, calls, sent_last_id,
                 file_exists, todo, market, failed, exc, gen>>

Next ==
  \/ ReadEnv
  \/ GetProductList
  \/ ReturnOfferIds
  \/ DownloadStock
  \/ CreateStocks
  \/ UpdateStocks
  \/ CreatePrices
  \/ UpdatePrice
  \/ Return
  \/ Except

Spec == InitMain /\ [][Next]_vars

\* ------------------------------------- create_stocks, create_prices alone

Defaults ==
  /\ fetched = offer_ids
  /\ stocks = <<>>
  /\ prices = <<>>
  /\ product_list = <<>>
  /\ last_id = ""
  /\ total = 0
  /\ calls = 0
  /\ sent_last_id = ""
  /\ file_exists = FALSE
  /\ todo = <<>>
  /\ market = <<>>
  /\ failed = FALSE
  /\ exc = NoError
  /\ printed = ""
  /\ exit_code = -1

InitStocks ==
  /\ pc = "create_stocks"
  /\ offer_ids \in SeqUpTo(OfferIdSet, MaxIds)
  /\ watch_remnants \in SeqUpTo(StockRows, MaxRows)
  /\ Defaults
  /\ gen = NoGen

SpecStocks == InitStocks /\ [][CreateStocks]_vars

InitPrices ==
  /\ pc = "create_prices"
  /\ offer_ids \in SeqUpTo(OfferIdSet, MaxIds)
  /\ watch_remnants \in SeqUpTo(PriceRows, MaxRows)
  /\ Defaults
  /\ gen = NoGen

SpecPrices == InitPrices /\ [][CreatePrices]_vars

\* ------------------------------------------------- divide, the generator

InitDivide ==
  /\ pc = "divide"
  /\ offer_ids = <<>>
  /\ watch_remnants = <<>>
  /\ Defaults
  /\ gen \in [lst : SeqUpTo(1..2, MaxLen), n : (0 - MaxN)..MaxN,
              state : {"created"}, pos : {<<>>}, out : {<<>>}]

\* the first next(): range(0, len(lst), n) is evaluated, and raises ValueError
\* when n is zero
GenStart ==
  /\ gen.state = "created"
  /\ gen' = IF gen.n = 0
            THEN [gen EXCEPT !.state = "ValueError"]
            ELSE [gen EXCEPT !.state = "running",
                             !.pos = Range(0, Len(gen.lst), gen.n)]
  /\ UNCHANGED mainVars

\* yield lst[i : i + n]
GenYield ==
  /\ gen.state = "running"
  /\ gen.pos # <<>>
  /\ gen' = [gen EXCEPT
               !.out = Append(@, Slice(gen.lst, Head(gen.pos),
                                       Head(gen.pos) + gen.n)),
               !.pos = Tail(@)]
  /\ UNCHANGED mainVars

\* the range is exhausted: StopIteration
GenStop ==
  /\ gen.state = "running"
  /\ gen.pos = <<>>
  /\ gen' = [gen EXCEPT !.state = "exhausted"]
  /\ UNCHANGED mainVars

NextDivide == GenStart \/ GenYield \/ GenStop

SpecDivide == InitDivide /\ [][NextDivide]_vars

\* ------------------------------------------------------------------ claims

\* the offer_id of every entry of a list of updates or products
Ids(seq) == [k \in 1..Len(seq) |-> seq[k].offer_id]

Elems(seq) == {seq[k] : k \in 1..Len(seq)}

NoDup(seq) == \A i, j \in 1..Len(seq) : seq[i] = seq[j] => i = j

\* the text of a code cell, written out
TextOf(cell) ==
  CASE cell = IntCell(7) -> <<"7">>
    [] cell = StrCell(<<"8">>) -> <<"8">>
    [] cell = StrCell(<<"9">>) -> <<"9">>
    [] OTHER -> <<"?">>

\* the stock of a quantity cell, written out
ExpectedStock(cell) ==
  CASE cell = StrCell(GT10) -> 100
    [] cell = StrCell(ONE) -> 0
    [] cell = IntCell(1) -> 0
    [] cell = StrCell(<<"1", "2">>) -> 12
    [] OTHER -> -1

\* create_stocks has returned
StocksReturned == pc \in {"update_stocks", "create_prices"}

\* create_prices has returned
PricesReturned == pc \in {"update_price", "end"}

\* how often x occurs in seq
Mult(x, seq) == Cardinality({k \in 1..Len(seq) : seq[k] = x})

\* row k of rows finds its code among the offer ids not yet taken by an
\* earlier row
Taken(rows, ids, k) ==
  Cardinality({j \in 1..(k - 1) : TextOf(rows[j].Kod) = TextOf(rows[k].Kod)})
    < Mult(TextOf(rows[k].Kod), ids)

TakenRows(rows, ids) ==
  SelectSeq([k \in 1..Len(rows) |-> k], LAMBDA k : Taken(rows, ids, k))

\* C1, as claimed: for every list of rows and every list of offer ids, the
\* offer ids of create_stocks' output are the input offer ids, each exactly
\* once.
C1_EveryList ==
  StocksReturned =>
    /\ NoDup(Ids(stocks))
    /\ Elems(Ids(stocks)) = Elems(fetched)

\* C1, amended: for every list of rows and every list of offer ids without
\* repetition, the offer ids of create_stocks' output are the input offer ids,
\* each exactly once.
C1_DistinctOfferIds ==
  (StocksReturned /\ NoDup(fetched)) =>
    /\ NoDup(Ids(stocks))
    /\ Elems(Ids(stocks)) = Elems(fetched)

\* C1's case: a code repeats among the rows and is an offer id, and another
\* offer id has no row
C1_Witness ==
  /\ StocksReturned
  /\ NoDup(fetched)
  /\ Len(fetched) = 2
  /\ Len(watch_remnants) = 2
  /\ watch_remnants[1].Kod = watch_remnants[2].Kod
  /\ Str(watch_remnants[1].Kod) = fetched[2]

RECURSIVE Concat(_)
Concat(ss) == IF ss = <<>> THEN <<>> ELSE Head(ss) \o Concat(Tail(ss))

\* C6: for n >= 1 divide(lst, n) ends without raising, and its slices
\* concatenate to lst, all of length n except the last, of length 1 to n.
C6_Chunks ==
  gen.n >= 1 =>
    /\ gen.state # "ValueError"
    /\ gen.state = "exhausted" =>
         /\ Concat(gen.out) = gen.lst
         /\ \A k \in 1..(Len(gen.out) - 1) : Len(gen.out[k]) = gen.n
         /\ gen.out # <<>> =>
              /\ Len(gen.out[Len(gen.out)]) >= 1
              /\ Len(gen.out[Len(gen.out)]) <= gen.n
         /\ gen.lst = <<>> => gen.out = <<>>

\* C6's case: three items in chunks of two
C6_Witness ==
  /\ gen.state = "exhausted"
  /\ gen.n = 2
  /\ Len(gen.lst) = 3
  /\ Len(gen.out) = 2

\* C9, as claimed: divide(lst, n) with n <= 0 raises ValueError.
C9_RaisesValueError ==
  (gen.n <= 0 /\ gen.state \in {"exhausted", "ValueError"})
    => gen.state = "ValueError"

\* C3: the first request carries an empty last_id and each later one the
\* last_id of the previous page; the loop goes on exactly while the item count
\* differs from the reported total, and then no request follows; the result is
\* the offer_id of every item in the order of discovery.
C3_Pagination ==
  /\ [](pc = "return_offer_ids" => (calls >= 1 /\ total = Len(product_list)))
  /\ []((pc = "get_offer_ids" /\ calls >= 1) => total # Len(product_list))
  /\ []((pc = "get_offer_ids" /\ calls = 0) => last_id = "")
  /\ [][calls' = calls + 1 =>
          /\ pc = "get_offer_ids"
          /\ sent_last_id' = last_id
          /\ pc' # "except" =>
               /\ Len(product_list') >= Len(product_list)
               /\ SubSeq(product_list', 1, Len(product_list)) = product_list
       ]_vars
  /\ [][pc = "return_offer_ids" =>
          /\ calls' # calls + 1
          /\ pc' # pc => offer_ids' = Ids(product_list)
       ]_vars

\* C3's case: two pages, three items in all, total three
C3_Witness ==
  /\ pc = "return_offer_ids"
  /\ calls = 2
  /\ Len(product_list) = 3
  /\ total = 3
  /\ sent_last_id # ""

\* C2, as claimed: a run of main in which no call fails pushes a price update
\* for every supplier row whose code is among the fetched offer ids.
C2_PricesOfFetchedOffers ==
  (pc = "exited" /\ exit_code = 0 /\ exc = NoError) =>
    \A k \in 1..Len(watch_remnants) :
      Contains(Str(watch_remnants[k].Kod), fetched) =>
        \E b \in 1..Len(market) :
          /\ market[b].kind = "prices"
          /\ Contains(Str(watch_remnants[k].Kod), Ids(market[b].batch))

\* C7, as claimed: every run of main ends with exit code 0.
C7_AlwaysZero == pc = "exited" => exit_code = 0

\* C7, amended: every run of main that has read the client id and the token
\* from the environment ends with exit code 0, its exception, if any, printed.
C7_ZeroAfterEnv ==
  [][(pc # "start" /\ pc' = "exited") =>
       /\ exit_code' = 0
       /\ exc # NoError => printed' # ""
    ]_vars

\* C7's case: an error no network clause names, caught by the last clause
C7_Witness ==
  /\ pc = "exited"
  /\ exc \in {"HTTPError", "ValueError", "XLRDError"}
  /\ printed = "ERROR_2"
  /\ exit_code = 0

\* C8, as claimed: once the run has ended, ostatki.xls does not exist.
C8_FileRemoved == pc = "exited" => ~file_exists

\* C10: a failed push ends in the except clause, and after it the marketplace
\* applies no further batch and keeps the batches it had applied.
C10_AbortOnFailedPush ==
  /\ [](failed => (pc \in {"except", "exited"} /\ exc # NoError))
  /\ [][failed => market' = market]_vars
  /\ [][/\ Len(market') >= Len(market)
        /\ SubSeq(market', 1, Len(market)) = market]_vars

\* C10's case: the first stock batch applied, the second failed
C10_Witness ==
  /\ pc = "exited"
  /\ failed
  /\ Len(list_divide(stocks, StocksChunk)) = 2
  /\ Len(market) = 1
  /\ todo # <<>>

====
